---- MODULE Spec2Model ----
(***************************************************************************)
(* texmgr: the path/root resolver (utils/fileops.py), the package          *)
(* declaration parser and installer (pkg/manager.py), the document builder *)
(* (builder/build.py, cli.py) and the log set-up (utils/logs.py).          *)
(*                                                                         *)
(* Paths are pathlib paths: a record [abs, parts]; a relative path is      *)
(* resolved against cwd when the filesystem is queried, while .parent and  *)
(* the / operator are purely lexical, as in pathlib.                       *)
(* The filesystem fs maps the absolute paths that exist to "file" or       *)
(* "dir".                                                                  *)
(***************************************************************************)
EXTENDS Integers, Sequences, FiniteSets, TLC

VARIABLES
    fs,            \* the filesystem: absolute parts -> "file" | "dir"
    cwd,           \* Path.cwd(), absolute parts
    pc,            \* position of the resolver call in progress
    op,            \* the resolver operation called
    start_path,    \* argument start_path / path
    filename,      \* argument filename (path components)
    max_depth,     \* argument max_depth
    faultAt,       \* the filesystem query of this call that hits an OS error (0: none)
    current_path,  \* find_file's local current_path
    iter,          \* iterations of find_file's for loop begun so far
    examined,      \* the directories whose entry was queried, in order
    found,         \* the value find_file returned
    result,        \* the value the operation returned
    raised,        \* whether the call ended by propagating an exception
    content,       \* parse_packages' argument: the text of packages.tex
    ppc,           \* position of the parse_packages call
    lines,         \* content.splitlines()
    lineNo,        \* index in lines of the line the for loop takes next
    packages,      \* parse_packages' local list packages
    cpc,           \* position of the command in progress
    args,          \* the command line: command, format, watch, keep_logs
    on_path,       \* the programs shutil.which finds
    invocations,   \* the external programs run so far: argv, cwd, outcome
    attempts,      \* the steps of the command taken so far and their outcome
    exit_code,     \* the value the command returned
    pkgNo,         \* index in packages of the entry the install loop takes next
    current,       \* logs.find_project_root's local current
    project_root,  \* the local project_root of the function in progress
    log_file,      \* the file of the logger's file handler
    installer_path \* install_texlive's local installer_path, once assigned

fsVars   == <<fs, cwd>>
callVars == <<op, start_path, filename, max_depth, faultAt>>
walkVars == <<current_path, iter, examined>>
resolverVars == <<pc, op, start_path, filename, max_depth, faultAt,
                  current_path, iter, examined, found, result, raised>>
parserVars == <<content, ppc, lines, lineNo, packages>>
cliVars  == <<cpc, args, on_path, invocations, attempts, exit_code, pkgNo,
              current, project_root, log_file, installer_path>>
vars     == <<fs, cwd, pc, op, start_path, filename, max_depth, faultAt,
              current_path, iter, examined, found, result, raised,
              content, ppc, lines, lineNo, packages,
              cpc, args, on_path, invocations, attempts, exit_code, pkgNo,
              current, project_root, log_file, installer_path>>

-----------------------------------------------------------------------------
(* Bounds of the model *)

\* depth of the deepest directory of the modelled trees
MaxChain == 2
\* largest max_depth passed to find_file explicitly
MaxDepthArg == 2

(* Program constants *)

\* find_file's default max_depth
DefaultMaxDepth == 5

\* Optional values: None, or a one-element sequence holding the value
None == <<>>
Some(x) == <<x>>
NoPath == [abs |-> TRUE, parts |-> <<"-">>]

MainTex == "main.tex"
RequiredFiles == <<MainTex>>
RequiredDirs == <<"format", "output", "text">>

Kinds == {"none", "file", "dir"}

Least(S) == CHOOSE x \in S : \A y \in S : x <= y

-----------------------------------------------------------------------------
(* pathlib *)

Abs(parts) == [abs |-> TRUE, parts |-> parts]
Rel(parts) == [abs |-> FALSE, parts |-> parts]

\* Path.parent: lexical; the root and "." are their own parents
Parent(p) ==
    IF p.parts = <<>> THEN p
    ELSE [p EXCEPT !.parts = SubSeq(p.parts, 1, Len(p.parts) - 1)]

\* p.parent taken k times
RECURSIVE Ancestor(_, _)
Ancestor(p, k) == IF k = 0 THEN p ELSE Ancestor(Parent(p), k - 1)

\* p / name
Join(p, name) == [p EXCEPT !.parts = p.parts \o name]

\* the absolute path a filesystem query on p looks at
Resolve(c, p) == IF p.abs THEN p.parts ELSE c \o p.parts

Kind(f, q) == IF q \in DOMAIN f THEN f[q] ELSE "none"

\* Path.is_dir(), Path.is_file() when the underlying stat succeeds or fails
\* with "no such entry"
IsDir(f, c, p)  == Kind(f, Resolve(c, p)) = "dir"
IsFile(f, c, p) == Kind(f, Resolve(c, p)) = "file"

-----------------------------------------------------------------------------
(* The directory trees drawn at Init: a chain of directories /, /d, /d/d,  *)
(* ... of depth D, an entry main.tex of any kind in each of them, and      *)
(* entries format, output, text of any kind in the deepest one.            *)

Chain(k) == [i \in 1..k |-> "d"]

LastOf(q) == q[Len(q)]

MkFs(D, m, r) ==
    LET dom == {Chain(k) : k \in 0..D}
               \cup {Chain(k) \o <<MainTex>> : k \in {j \in 0..D : m[j] # "none"}}
               \cup {Chain(D) \o <<n>> : n \in {x \in DOMAIN r : r[x] # "none"}}
    IN [q \in dom |->
            IF q = <<>> THEN "dir"
            ELSE IF LastOf(q) = "d" THEN "dir"
            ELSE IF LastOf(q) = MainTex THEN m[Len(q) - 1]
            ELSE r[LastOf(q)]]

ReqNames == {RequiredDirs[i] : i \in DOMAIN RequiredDirs}

\* trees that vary the markers along the chain
WalkTrees ==
    UNION {{MkFs(D, m, r) : m \in [0..D -> Kinds],
                            r \in {[n \in ReqNames |-> "none"], [n \in ReqNames |-> "dir"]}}
           : D \in 0..MaxChain}

\* trees that vary the entries of one directory
ProjectTrees ==
    UNION {{MkFs(D, [k \in 0..D |-> IF k = D THEN mk ELSE "none"], r) :
                mk \in Kinds, r \in [ReqNames -> Kinds]}
           : D \in 0..MaxChain}

Trees == WalkTrees \cup ProjectTrees

\* the arguments drawn for start_path / path
Starts ==
    {Abs(Chain(k)) : k \in 0..(MaxChain + 1)}
    \cup {Abs(Chain(k) \o <<MainTex>>) : k \in 0..MaxChain}
    \cup {Rel(<<>>), Rel(<<"d">>), Rel(<<MainTex>>)}

Filenames == {<<MainTex>>, <<"format">>}

Depths == (0 - 1)..MaxDepthArg

-----------------------------------------------------------------------------
(* State after construction *)

ResolverIdle ==
    /\ pc = "idle"
    /\ op = "none"
    /\ start_path = NoPath
    /\ filename = <<>>
    /\ max_depth = 0
    /\ faultAt = 0
    /\ current_path = NoPath
    /\ iter = 0
    /\ examined = <<>>
    /\ found = None
    /\ result = None
    /\ raised = FALSE

ParserIdle ==
    /\ ppc = "idle"
    /\ lines = <<>>
    /\ lineNo = 0
    /\ packages = <<>>

NoArgs == [command |-> "none", format |-> "none", watch |-> FALSE, keep_logs |-> FALSE]

\* no command has started
CommandIdle ==
    /\ cpc = "idle"
    /\ args = NoArgs
    /\ invocations = <<>>
    /\ attempts = <<>>
    /\ exit_code = None
    /\ pkgNo = 0
    /\ current = NoPath
    /\ project_root = None
    /\ log_file = None
    /\ installer_path = None

Init ==
    /\ fs \in Trees
    /\ cwd \in {q \in DOMAIN fs : fs[q] = "dir" /\ (q = <<>> \/ LastOf(q) = "d")}
    /\ ResolverIdle
    /\ content = <<>>
    /\ ParserIdle
    /\ on_path = {}
    /\ CommandIdle

-----------------------------------------------------------------------------
(* find_file(start_path, filename, max_depth)                               *)
(*                                                                          *)
(* Every filesystem query may hit an OS error (EACCES, EIO) in the stat     *)
(* behind is_dir()/is_file(). pathlib up to CPython 3.13 re-raises such an  *)
(* error, the os.path-based pathlib of 3.14 answers False: both outcomes    *)
(* are modelled. Query 1 is start_path.is_dir(), query 1 + n the is_file()  *)
(* of the n-th loop pass; faultAt keeps the first query that faulted.       *)

NoteFault(q) == faultAt' = IF faultAt = 0 THEN q ELSE faultAt

CallFindFile ==
    /\ pc = "idle"
    /\ \E s \in Starts, fn \in Filenames, md \in Depths :
          /\ op' = "find_file"
          /\ start_path' = s
          /\ filename' = fn
          /\ max_depth' = md
    /\ pc' = "check_start"
    /\ UNCHANGED <<fsVars, faultAt, walkVars, found, result, raised>>
    /\ UNCHANGED <<parserVars, cliVars>>

\* find_file's value reaches its caller: detect_project_root goes on with it
FindFileReturns(v) ==
    /\ found' = v
    /\ IF op = "detect_project_root"
          THEN pc' = "detect_return" /\ UNCHANGED result
          ELSE pc' = "done" /\ result' = v

CheckStartUnguarded ==
    /\ pc = "check_start"
    /\ pc' = "loop"
    /\ current_path' = start_path
    /\ iter' = 0
    /\ UNCHANGED <<faultAt, examined, found, result, raised>>
    /\ UNCHANGED <<fsVars, op, start_path, filename, max_depth>>
    /\ UNCHANGED <<parserVars, cliVars>>

\* lines 169-171: the is_dir() check on start_path, outside the try block
CheckStart ==
    /\ pc = "check_start"
    /\ \/ /\ NoteFault(1)                           \* is_dir() raises: propagates
          /\ pc' = "done"
          /\ raised' = TRUE
          /\ UNCHANGED <<walkVars, found, result>>
       \/ /\ NoteFault(1)                           \* the error is answered False
          /\ FindFileReturns(None)
          /\ UNCHANGED <<walkVars, raised>>
       \/ /\ ~IsDir(fs, cwd, start_path)
          /\ FindFileReturns(None)
          /\ UNCHANGED <<faultAt, walkVars, raised>>
       \/ /\ IsDir(fs, cwd, start_path)
          /\ pc' = "loop"
          /\ current_path' = start_path
          /\ iter' = 0
          /\ UNCHANGED <<faultAt, examined, found, result, raised>>
    /\ UNCHANGED <<fsVars, op, start_path, filename, max_depth>>
    /\ UNCHANGED <<parserVars, cliVars>>

\* lines 180-183: the end of a loop pass whose is_file() answered False
NoMatch ==
    \/ /\ current_path = Parent(current_path)       \* break
       /\ FindFileReturns(None)
       /\ UNCHANGED <<current_path, iter>>
    \/ /\ current_path # Parent(current_path)
       /\ current_path' = Parent(current_path)
       /\ iter' = iter + 1
       /\ UNCHANGED <<pc, found, result>>

LoopBoundShort(md) == md
LoopBoundLong(md) == md + 2

\* line 175: the number of passes of "for _ in range(max_depth + 1)"
LoopBound(md) == md + 1

\* lines 175-183: one pass of the for loop, inside the try
ForLoopBody ==
    /\ pc = "loop"
    /\ \/ /\ iter >= LoopBound(max_depth)           \* range exhausted
          /\ FindFileReturns(None)
          /\ UNCHANGED <<faultAt, walkVars>>
       \/ /\ iter < LoopBound(max_depth)
          /\ examined' = Append(examined, current_path)
          /\ LET file_path == Join(current_path, filename)
             IN \/ /\ NoteFault(iter + 2)           \* is_file() raises: except, return None
                   /\ FindFileReturns(None)
                   /\ UNCHANGED <<current_path, iter>>
                \/ /\ NoteFault(iter + 2)           \* the error is answered False
                   /\ NoMatch
                \/ /\ IsFile(fs, cwd, file_path)
                   /\ FindFileReturns(Some(file_path))
                   /\ UNCHANGED <<faultAt, current_path, iter>>
                \/ /\ ~IsFile(fs, cwd, file_path)
                   /\ NoMatch
                   /\ UNCHANGED faultAt
    /\ UNCHANGED <<op, start_path, filename, max_depth, raised>>

ForLoopCreates ==
    /\ ForLoopBody
    /\ fs' = [q \in DOMAIN fs \cup {Resolve(cwd, Join(current_path, filename))} |->
                 IF q \in DOMAIN fs THEN fs[q] ELSE "file"]
    /\ UNCHANGED cwd
    /\ UNCHANGED <<parserVars, cliVars>>

ForLoop ==
    /\ ForLoopBody
    /\ UNCHANGED fsVars
    /\ UNCHANGED <<parserVars, cliVars>>

-----------------------------------------------------------------------------
(* detect_project_root(start_path)                                          *)

CallDetectProjectRoot ==
    /\ pc = "idle"
    /\ \E s \in {None} \cup {Some(x) : x \in Starts} :
          start_path' = IF s = None THEN Abs(cwd) ELSE s[1]
    /\ op' = "detect_project_root"
    /\ filename' = <<MainTex>>
    /\ max_depth' = DefaultMaxDepth
    /\ pc' = "check_start"
    /\ UNCHANGED <<fsVars, faultAt, walkVars, found, result, raised>>
    /\ UNCHANGED <<parserVars, cliVars>>

DetectReturnNoParent ==
    /\ pc = "detect_return"
    /\ result' = found
    /\ pc' = "done"
    /\ UNCHANGED <<fsVars, callVars, walkVars, found, raised>>
    /\ UNCHANGED <<parserVars, cliVars>>

\* line 250: return result.parent if result else None
DetectReturn ==
    /\ pc = "detect_return"
    /\ result' = IF found # None THEN Some(Parent(found[1])) ELSE None
    /\ pc' = "done"
    /\ UNCHANGED <<fsVars, callVars, walkVars, found, raised>>
    /\ UNCHANGED <<parserVars, cliVars>>

-----------------------------------------------------------------------------
(* is_valid_project_dir(path)                                               *)

is_valid_project_dir_exists(f, c, path) ==
    /\ \A i \in DOMAIN RequiredFiles : IsFile(f, c, Join(path, <<RequiredFiles[i]>>))
    /\ \A i \in DOMAIN RequiredDirs :
          Kind(f, Resolve(c, Join(path, <<RequiredDirs[i]>>))) # "none"

\* lines 275-292
is_valid_project_dir(f, c, path) ==
    /\ \A i \in DOMAIN RequiredFiles : IsFile(f, c, Join(path, <<RequiredFiles[i]>>))
    /\ \A i \in DOMAIN RequiredDirs : IsDir(f, c, Join(path, <<RequiredDirs[i]>>))

CallIsValidProjectDir ==
    /\ pc = "idle"
    /\ \E s \in Starts :
          /\ start_path' = s
          /\ result' = Some(is_valid_project_dir(fs, cwd, s))
    /\ op' = "is_valid_project_dir"
    /\ pc' = "done"
    /\ UNCHANGED <<fsVars, filename, max_depth, faultAt, walkVars, found, raised>>
    /\ UNCHANGED <<parserVars, cliVars>>

-----------------------------------------------------------------------------

\* the caller takes the outcome; the next call starts afresh
Finish ==
    /\ pc = "done"
    /\ pc' = "idle"
    /\ op' = "none"
    /\ start_path' = NoPath
    /\ filename' = <<>>
    /\ max_depth' = 0
    /\ faultAt' = 0
    /\ current_path' = NoPath
    /\ iter' = 0
    /\ examined' = <<>>
    /\ found' = None
    /\ result' = None
    /\ raised' = FALSE
    /\ UNCHANGED fsVars
    /\ UNCHANGED <<parserVars, cliVars>>

Next ==
    \/ CallFindFile
    \/ CheckStart
    \/ ForLoop
    \/ CallDetectProjectRoot
    \/ DetectReturn
    \/ CallIsValidProjectDir
    \/ Finish

Spec == Init /\ [][Next]_vars

-----------------------------------------------------------------------------
(* Package declaration parser (pkg/manager.py)                              *)
(*                                                                          *)
(* A Python str is a sequence of one-character strings.                     *)

\* number of physical lines of the contents drawn
MaxLines == 3

Keyword == <<"\\", "u", "s", "e", "p", "a", "c", "k", "a", "g", "e">>

\* characters str.strip() removes
Whitespace == {" ", "\t", "\n"}

RECURSIVE LStrip(_)
LStrip(s) == IF s # <<>> /\ s[1] \in Whitespace THEN LStrip(Tail(s)) ELSE s

RECURSIVE RStrip(_)
RStrip(s) ==
    IF s # <<>> /\ s[Len(s)] \in Whitespace
       THEN RStrip(SubSeq(s, 1, Len(s) - 1))
       ELSE s

\* str.strip()
Strip(s) == RStrip(LStrip(s))

\* str.startswith(prefix)
StartsWith(s, prefix) ==
    /\ Len(s) >= Len(prefix)
    /\ SubSeq(s, 1, Len(prefix)) = prefix

\* index of the first ch in s at or after from; 0 when there is none
IndexFrom(s, ch, from) ==
    LET S == {i \in from..Len(s) : s[i] = ch}
    IN IF S = {} THEN 0 ELSE Least(S)

\* str.split(sep)
RECURSIVE Split(_, _)
Split(s, sep) ==
    LET n == IndexFrom(s, sep, 1)
    IN IF n = 0 THEN <<s>>
       ELSE <<SubSeq(s, 1, n - 1)>> \o Split(SubSeq(s, n + 1, Len(s)), sep)

\* str.splitlines() for the line break "\n"
RECURSIVE SplitLines(_)
SplitLines(s) ==
    IF s = <<>> THEN <<>>
    ELSE LET n == IndexFrom(s, "\n", 1)
         IN IF n = 0 THEN <<s>>
            ELSE <<SubSeq(s, 1, n - 1)>> \o SplitLines(SubSeq(s, n + 1, Len(s)))

MatchEmptyClause(s) ==
    LET p      == Len(Keyword) + 1
        closeB == IF p <= Len(s) /\ s[p] = "[" THEN IndexFrom(s, "]", p + 1) ELSE 0
        q      == IF closeB # 0 THEN closeB + 1 ELSE p
        closeN == IF q <= Len(s) /\ s[q] = "{" THEN IndexFrom(s, "}", q + 1) ELSE 0
    IN [ok     |-> StartsWith(s, Keyword) /\ closeN > q,
        group1 |-> IF closeB # 0 THEN Some(SubSeq(s, p + 1, closeB - 1)) ELSE None,
        group2 |-> SubSeq(s, q + 1, closeN - 1),
        open   |-> q]

MatchWholeLine(s) ==
    LET p      == Len(Keyword) + 1
        closeB == IF p <= Len(s) /\ s[p] = "[" THEN IndexFrom(s, "]", p + 1) ELSE 0
        q      == IF closeB # 0 THEN closeB + 1 ELSE p
        closeN == IF q <= Len(s) /\ s[q] = "{" THEN IndexFrom(s, "}", q + 1) ELSE 0
    IN [ok     |-> StartsWith(s, Keyword) /\ closeN > q + 1 /\ closeN = Len(s),
        group1 |-> IF closeB # 0 THEN Some(SubSeq(s, p + 1, closeB - 1)) ELSE None,
        group2 |-> SubSeq(s, q + 1, closeN - 1),
        open   |-> q]

MatchOptionsOrNone(s) ==
    LET p      == Len(Keyword) + 1
        closeB == IF p <= Len(s) /\ s[p] = "[" THEN IndexFrom(s, "]", p + 1) ELSE 0
        q      == IF closeB # 0 THEN closeB + 1 ELSE p
        closeN == IF q <= Len(s) /\ s[q] = "{" THEN IndexFrom(s, "}", q + 1) ELSE 0
    IN [ok     |-> StartsWith(s, Keyword) /\ closeN > q + 1,
        group1 |-> IF closeB > p + 1 THEN Some(SubSeq(s, p + 1, closeB - 1)) ELSE None,
        group2 |-> SubSeq(s, q + 1, closeN - 1),
        open   |-> q]

\* re.match(r'\\usepackage(?:\[([^\]]*)\])?\{([^}]+)\}', s): the keyword at
\* the start of s; then, when "[" follows and a "]" comes after it, the
\* options group up to the first "]"; then "{", one or more characters other
\* than "}", and "}". group1 is None when the options group took no part.
Match(s) ==
    LET p      == Len(Keyword) + 1
        closeB == IF p <= Len(s) /\ s[p] = "[" THEN IndexFrom(s, "]", p + 1) ELSE 0
        q      == IF closeB # 0 THEN closeB + 1 ELSE p
        closeN == IF q <= Len(s) /\ s[q] = "{" THEN IndexFrom(s, "}", q + 1) ELSE 0
    IN [ok     |-> StartsWith(s, Keyword) /\ closeN > q + 1,
        group1 |-> IF closeB # 0 THEN Some(SubSeq(s, p + 1, closeB - 1)) ELSE None,
        group2 |-> SubSeq(s, q + 1, closeN - 1),
        open   |-> q]

KeepEveryToken(t) == TRUE

NonEmptyToken(t) == Strip(t) # <<>>

parse_package_line_first_only(line) ==
    LET m == Match(Strip(line))
    IN IF ~m.ok THEN <<>>
       ELSE LET kept == SelectSeq(Split(m.group2, ","), NonEmptyToken)
            IN [i \in DOMAIN kept |->
                   <<Strip(kept[i]), IF i = 1 THEN m.group1 ELSE None>>]

\* parse_package_line(line): the pairs <<name, options>> of one line
parse_package_line(line) ==
    LET m == Match(Strip(line))
    IN IF ~m.ok THEN <<>>
       ELSE LET kept == SelectSeq(Split(m.group2, ","), NonEmptyToken)
            IN [i \in DOMAIN kept |-> <<Strip(kept[i]), m.group1>>]

\* lines 57-61: what one physical line adds to packages
LineEntries(raw) ==
    LET line == Strip(raw)
    IN IF StartsWith(line, Keyword) THEN parse_package_line(line) ELSE <<>>

\* parse_packages(content) as a function of its argument
RECURSIVE ExtendAll(_, _)
ExtendAll(acc, ls) ==
    IF ls = <<>> THEN acc
    ELSE ExtendAll(acc \o LineEntries(Head(ls)), Tail(ls))

parse_packages(c) == ExtendAll(<<>>, SplitLines(c))

-----------------------------------------------------------------------------
(* The contents drawn: up to MaxLines lines out of LineForms, joined by     *)
(* line breaks, with or without a final line break.                         *)

Usepackage(rest) == Keyword \o rest

LineForms ==
    { Usepackage(<<"{", "a", "}">>),
      Usepackage(<<"{", "a", ",", "b", "}">>),
      Usepackage(<<"{", "b", ",", " ", "a", "}">>),
      Usepackage(<<"[", "o", "]", "{", "a", ",", "b", "}">>),
      Usepackage(<<"[", "o", "]", "{", "a", ",", " ", "b", ",", ",", " ", "c", "}">>),
      Usepackage(<<"[", "]", "{", "b", "}">>),
      <<" ">> \o Usepackage(<<"[", " ", "o", ",", "p", "]", "{", "c", "}", " ", "%", "x">>),
      Usepackage(<<"{", "a", "}", "{", "b", "}">>),
      Usepackage(<<"{", "}">>),
      Usepackage(<<"[", "o", "{", "a", "}">>),
      Usepackage(<<"{", "a">>),
      Usepackage(<<>>),
      <<"%", " ">> \o Usepackage(<<"{", "a", "}">>),
      <<>> }

RECURSIVE JoinLines(_)
JoinLines(ls) ==
    IF ls = <<>> THEN <<>>
    ELSE IF Len(ls) = 1 THEN ls[1]
    ELSE ls[1] \o <<"\n">> \o JoinLines(Tail(ls))

LineEnds == {<<>>, <<"\n">>}

-----------------------------------------------------------------------------
(* parse_packages(content), one loop pass per step                          *)

\* lines 53-56
CallParsePackages ==
    /\ ppc = "idle"
    /\ ppc' = "for"
    /\ lines' = SplitLines(content)
    /\ lineNo' = 1
    /\ packages' = <<>>
    /\ UNCHANGED <<fsVars, resolverVars, cliVars, content>>

ParseLineStops ==
    /\ ppc = "for"
    /\ lineNo <= Len(lines)
    /\ LET line == Strip(lines[lineNo])
       IN IF StartsWith(line, Keyword) /\ parse_package_line(line) = <<>>
             THEN ppc' = "done" /\ UNCHANGED <<lineNo, packages>>
             ELSE /\ packages' = packages \o LineEntries(lines[lineNo])
                  /\ lineNo' = lineNo + 1
                  /\ ppc' = "for"
    /\ UNCHANGED <<fsVars, resolverVars, cliVars, content, lines>>

ParseLinePrepends ==
    /\ ppc = "for"
    /\ lineNo <= Len(lines)
    /\ packages' = LineEntries(lines[lineNo]) \o packages
    /\ lineNo' = lineNo + 1
    /\ UNCHANGED <<fsVars, resolverVars, cliVars, content, ppc, lines>>

\* index of the first place where the keyword occurs in s; 0 when nowhere
KeywordAt(s) ==
    LET S == {i \in 1..Len(s) : StartsWith(SubSeq(s, i, Len(s)), Keyword)}
    IN IF S = {} THEN 0 ELSE Least(S)

ParseLineAnywhere ==
    /\ ppc = "for"
    /\ lineNo <= Len(lines)
    /\ LET line == Strip(lines[lineNo])
           at   == KeywordAt(line)
       IN IF at # 0
             THEN packages' = packages \o parse_package_line(SubSeq(line, at, Len(line)))
             ELSE UNCHANGED packages
    /\ lineNo' = lineNo + 1
    /\ UNCHANGED <<fsVars, resolverVars, cliVars, content, ppc, lines>>

ParseLineDedupes ==
    /\ ppc = "for"
    /\ lineNo <= Len(lines)
    /\ LET line == Strip(lines[lineNo])
           fresh(pair) == \A k \in DOMAIN packages : packages[k] # pair
       IN IF StartsWith(line, Keyword)
             THEN packages' = packages \o SelectSeq(parse_package_line(line), fresh)
             ELSE UNCHANGED packages
    /\ lineNo' = lineNo + 1
    /\ UNCHANGED <<fsVars, resolverVars, cliVars, content, ppc, lines>>

\* lines 56-73: one pass of "for line in content.splitlines()"
ParseLine ==
    /\ ppc = "for"
    /\ lineNo <= Len(lines)
    /\ LET line == Strip(lines[lineNo])
       IN IF StartsWith(line, Keyword)
             THEN packages' = packages \o parse_package_line(line)
             ELSE UNCHANGED packages
    /\ lineNo' = lineNo + 1
    /\ UNCHANGED <<fsVars, resolverVars, cliVars, content, ppc, lines>>

\* line 75: return packages
ParseReturn ==
    /\ ppc = "for"
    /\ lineNo > Len(lines)
    /\ ppc' = "done"
    /\ UNCHANGED <<fsVars, resolverVars, cliVars, content, lines, lineNo, packages>>

ParserInit ==
    /\ fs = MkFs(0, [k \in {0} |-> "none"], [n \in ReqNames |-> "none"])
    /\ cwd = <<>>
    /\ ResolverIdle
    /\ \E n \in 0..MaxLines :
          \E ls \in [1..n -> LineForms], end \in LineEnds :
              content = JoinLines(ls) \o end
    /\ ParserIdle
    /\ on_path = {}
    /\ CommandIdle

ParserNext ==
    \/ CallParsePackages
    \/ ParseLine
    \/ ParseReturn

ParserSpec == ParserInit /\ [][ParserNext]_vars

-----------------------------------------------------------------------------
(* parse_package_line(line) on its own: the argument is a line of LineForms *)
(* with a trailing text appended; lines keeps the line without it.          *)

\* trailing texts appended to a line
Trailers ==
    { <<" ">>,
      <<" ", "%", "x">>,
      <<"}">>,
      <<"]">>,
      <<"{", "b", "}">>,
      <<",", "b", "}">>,
      <<"[", "p", "]", "{", "b", "}">>,
      Usepackage(<<"{", "b", "}">>) }

LineInit ==
    /\ fs = MkFs(0, [k \in {0} |-> "none"], [n \in ReqNames |-> "none"])
    /\ cwd = <<>>
    /\ ResolverIdle
    /\ \E L \in LineForms, t \in Trailers \cup {<<>>} :
          /\ lines = <<L>>
          /\ content = L \o t
    /\ ppc = "idle"
    /\ lineNo = 0
    /\ packages = <<>>
    /\ on_path = {}
    /\ CommandIdle

\* lines 12-37
CallParsePackageLine ==
    /\ ppc = "idle"
    /\ packages' = parse_package_line(content)
    /\ ppc' = "line_done"
    /\ UNCHANGED <<fsVars, resolverVars, cliVars, content, lines, lineNo>>

LineNext == CallParsePackageLine

LineSpec == LineInit /\ [][LineNext]_vars

-----------------------------------------------------------------------------
(* The resolver as the commands call it: the value of a call none of whose  *)
(* filesystem queries hits an OS error.                                     *)

\* find_file(start, fn, md) in the filesystem f with working directory c
find_file(f, c, start, fn, md) ==
    LET hits == {k \in 0..md : IsFile(f, c, Join(Ancestor(start, k), fn))}
    IN IF ~IsDir(f, c, start) \/ hits = {} THEN None
       ELSE Some(Join(Ancestor(start, Least(hits)), fn))

\* detect_project_root(): start_path is None, the search starts at Path.cwd()
detect_project_root(f, c) ==
    LET marker == find_file(f, c, Abs(c), <<MainTex>>, DefaultMaxDepth)
    IN IF marker # None THEN Some(Parent(marker[1])) ELSE None

-----------------------------------------------------------------------------
(* utils/cmds.py                                                            *)

\* check_command_exists(command)
check_command_exists(command) == command \in on_path

\* run_command(cmd, cwd=None, error_msg=...): the program runs in cwd when
\* one is passed and in the working directory of the process otherwise; ok
\* tells whether it returned, the other outcome being the exception raised
\* for a program that cannot be started or exits with a non-zero status.
run_command(cmd, dir, ok) ==
    [argv |-> cmd, cwd |-> IF dir = None THEN Abs(cwd) ELSE dir[1], ok |-> ok]

\* one more entry of the record of steps taken
Noted(step, ok) == Append(attempts, [step |-> step, ok |-> ok])

-----------------------------------------------------------------------------
(* texmgr pkg install: handle_package_command("install", args)              *)

Overlay(f, g) ==
    [q \in DOMAIN f \cup DOMAIN g |-> IF q \in DOMAIN g THEN g[q] ELSE f[q]]

\* the chain of directories of depth D and nothing else
Bare(D) == MkFs(D, [k \in 0..D |-> "none"], [n \in ReqNames |-> "none"])

PackagesTex == <<"format", "packages.tex">>

\* the entries of a project in Chain(P): main.tex of kind mk, the directory
\* format and in it packages.tex of kind pk
PkgProject(P, mk, pk) ==
    LET dom == {Chain(P) \o <<"format">>}
               \cup (IF mk # "none" THEN {Chain(P) \o <<MainTex>>} ELSE {})
               \cup (IF pk # "none" THEN {Chain(P) \o PackagesTex} ELSE {})
    IN [q \in dom |->
            IF LastOf(q) = "format" THEN "dir"
            ELSE IF LastOf(q) = MainTex THEN mk
            ELSE pk]

PkgTrees ==
    UNION {{Overlay(Bare(D), PkgProject(P, mk, pk)) :
                P \in 0..D, mk \in {"none", "file"}, pk \in {"none", "file"}}
           : D \in 0..MaxChain}

\* the texts of packages.tex drawn
PkgContents ==
    { <<>>,
      Usepackage(<<"{", "a", "}">>),
      JoinLines(<< Usepackage(<<"[", "o", "]", "{", "a", ",", "b", "}">>),
                   Usepackage(<<"{", "a", "}">>) >>),
      JoinLines(<< Usepackage(<<"{", "b", ",", " ", "a", "}">>),
                   <<"%", " ">> \o Usepackage(<<"{", "a", "}">>),
                   Usepackage(<<"{", "}">>) >>) \o <<"\n">> }

PkgInit ==
    /\ fs \in PkgTrees
    /\ cwd \in {q \in DOMAIN fs : fs[q] = "dir"}
    /\ ResolverIdle
    /\ content \in PkgContents
    /\ ParserIdle
    /\ on_path \in SUBSET {"tlmgr"}
    /\ CommandIdle

\* cli.py lines 148-150
CallHandlePackageCommand ==
    /\ cpc = "idle"
    /\ args' = [NoArgs EXCEPT !.command = "pkg install"]
    /\ cpc' = "read_packages_file"
    /\ UNCHANGED <<fsVars, resolverVars, parserVars>>
    /\ UNCHANGED <<on_path, invocations, attempts, exit_code, pkgNo, current, project_root, log_file>>
    /\ UNCHANGED installer_path

\* line 153 and read_packages_file: the file is searched from Path.cwd()
\* upwards, read and parsed; when it is not found, or the search or the read
\* hits an OS error, the exception reaches line 167 and 1 is returned (169)
ReadPackagesFile ==
    /\ cpc = "read_packages_file"
    /\ LET packages_file == find_file(fs, cwd, Abs(cwd), PackagesTex, DefaultMaxDepth)
       IN \/ /\ attempts' = Noted("read_packages_file", FALSE)
             /\ exit_code' = Some(1)
             /\ cpc' = "returned"
             /\ UNCHANGED <<packages, pkgNo>>
          \/ /\ packages_file # None
             /\ packages' = parse_packages(content)
             /\ pkgNo' = 1
             /\ attempts' = Noted("read_packages_file", TRUE)
             /\ cpc' = "install"
             /\ UNCHANGED exit_code
    /\ UNCHANGED <<fsVars, resolverVars, content, ppc, lines, lineNo>>
    /\ UNCHANGED <<args, on_path, invocations, current, project_root, log_file>>
    /\ UNCHANGED installer_path

InstallPackageStopsAtFailure ==
    /\ cpc = "install"
    /\ pkgNo <= Len(packages)
    /\ LET package == packages[pkgNo][1]
       IN \/ /\ ~check_command_exists("tlmgr")
             /\ attempts' = Noted("install_package", FALSE)
             /\ exit_code' = Some(1)
             /\ cpc' = "returned"
             /\ UNCHANGED invocations
          \/ /\ check_command_exists("tlmgr")
             /\ \E ok \in BOOLEAN :
                   /\ invocations' =
                         Append(invocations,
                                run_command(<<"tlmgr", "install", package>>, None, ok))
                   /\ attempts' = Noted("install_package", ok)
                   /\ exit_code' = IF ok THEN exit_code ELSE Some(1)
                   /\ cpc' = IF ok THEN cpc ELSE "returned"
    /\ pkgNo' = pkgNo + 1
    /\ UNCHANGED <<fsVars, resolverVars, content, ppc, lines, lineNo, packages>>
    /\ UNCHANGED <<args, on_path, current, project_root, log_file>>
    /\ UNCHANGED installer_path

InstallPackagePassesOptions ==
    /\ cpc = "install"
    /\ pkgNo <= Len(packages)
    /\ LET package == packages[pkgNo][1]
           options == packages[pkgNo][2]
       IN \/ /\ ~check_command_exists("tlmgr")
             /\ attempts' = Noted("install_package", FALSE)
             /\ UNCHANGED invocations
          \/ /\ check_command_exists("tlmgr")
             /\ \E ok \in BOOLEAN :
                   /\ invocations' =
                         Append(invocations,
                                run_command(<<"tlmgr", "install", package>> \o options, None, ok))
                   /\ attempts' = Noted("install_package", ok)
    /\ pkgNo' = pkgNo + 1
    /\ UNCHANGED <<fsVars, resolverVars, content, ppc, lines, lineNo, packages>>
    /\ UNCHANGED <<cpc, args, on_path, exit_code, current, project_root, log_file>>
    /\ UNCHANGED installer_path

\* lines 157-162: one pass of "for package, options in packages", with
\* install_package (lines 118-132) inside: a PackageError is logged and the
\* loop goes on
InstallPackage ==
    /\ cpc = "install"
    /\ pkgNo <= Len(packages)
    /\ LET package == packages[pkgNo][1]
       IN \/ /\ ~check_command_exists("tlmgr")
             /\ attempts' = Noted("install_package", FALSE)
             /\ UNCHANGED invocations
          \/ /\ check_command_exists("tlmgr")
             /\ \E ok \in BOOLEAN :
                   /\ invocations' =
                         Append(invocations,
                                run_command(<<"tlmgr", "install", package>>, None, ok))
                   /\ attempts' = Noted("install_package", ok)
    /\ pkgNo' = pkgNo + 1
    /\ UNCHANGED <<fsVars, resolverVars, content, ppc, lines, lineNo, packages>>
    /\ UNCHANGED <<cpc, args, on_path, exit_code, current, project_root, log_file>>
    /\ UNCHANGED installer_path

\* lines 164-165
HandlePackageReturn ==
    /\ cpc = "install"
    /\ pkgNo > Len(packages)
    /\ exit_code' = Some(0)
    /\ cpc' = "returned"
    /\ UNCHANGED <<fsVars, resolverVars, parserVars>>
    /\ UNCHANGED <<args, on_path, invocations, attempts, pkgNo, current, project_root, log_file>>
    /\ UNCHANGED installer_path

PkgNext ==
    \/ CallHandlePackageCommand
    \/ ReadPackagesFile
    \/ InstallPackage
    \/ HandlePackageReturn

PkgSpec == PkgInit /\ [][PkgNext]_vars

-----------------------------------------------------------------------------
(* setup_logging(verbose) (utils/logs.py), called by entry_point before the *)
(* command is dispatched. The filesystem queries succeed.                   *)

\* Path.home()
Home == <<"home">>

\* Path.mkdir(parents=True, exist_ok=True) on the absolute path q succeeds
\* when no prefix of q is an entry other than a directory
MkdirOk(f, q) == \A n \in 0..Len(q) : Kind(f, SubSeq(q, 1, n)) \in {"none", "dir"}

\* the filesystem after it
Mkdirs(f, q) ==
    [x \in DOMAIN f \cup {SubSeq(q, 1, n) : n \in 0..Len(q)} |->
        IF x \in DOMAIN f THEN f[x] ELSE "dir"]

\* the filesystem with the regular file q written
WithFile(f, q) == [x \in DOMAIN f \cup {q} |-> IF x = q THEN "file" ELSE f[x]]

LogInit ==
    /\ fs \in Trees
    /\ cwd \in {q \in DOMAIN fs : fs[q] = "dir" /\ (q = <<>> \/ LastOf(q) = "d")}
    /\ ResolverIdle
    /\ content = <<>>
    /\ ParserIdle
    /\ on_path = {}
    /\ CommandIdle

\* cli.py line 137, logs.py lines 95-113 and 62
CallSetupLogging ==
    /\ cpc = "idle"
    /\ args' = [NoArgs EXCEPT !.command = "setup_logging"]
    /\ current' = Abs(cwd)
    /\ cpc' = "find_project_root"
    /\ UNCHANGED <<fsVars, resolverVars, parserVars>>
    /\ UNCHANGED <<on_path, invocations, attempts, exit_code, pkgNo, project_root, log_file>>
    /\ UNCHANGED installer_path

\* logs.py lines 65-70: one test of the while condition of find_project_root
\* and the pass that follows it, or the return None after the loop
FindProjectRootPass ==
    /\ cpc = "find_project_root"
    /\ IF current = Parent(current)
          THEN /\ project_root' = None
               /\ cpc' = "log_dir"
               /\ UNCHANGED current
          ELSE IF Kind(fs, Resolve(cwd, Join(current, <<MainTex>>))) # "none"
          THEN /\ project_root' = Some(current)
               /\ cpc' = "log_dir"
               /\ UNCHANGED current
          ELSE /\ current' = Parent(current)
               /\ UNCHANGED <<cpc, project_root>>
    /\ UNCHANGED <<fsVars, resolverVars, parserVars>>
    /\ UNCHANGED <<args, on_path, invocations, attempts, exit_code, pkgNo, log_file>>
    /\ UNCHANGED installer_path

\* logs.py lines 114-117
log_dir(root) ==
    IF root # None THEN Join(root[1], <<"output", "logs">>)
    ELSE Abs(Home \o <<".texmgr", "logs">>)

\* logs.py lines 114-131: the log directory is created and the log file
\* opened for appending; a failing mkdir raises out of setup_logging
MakeLogDir ==
    /\ cpc = "log_dir"
    /\ LET dir == log_dir(project_root).parts
       IN IF MkdirOk(fs, dir)
             THEN /\ fs' = WithFile(Mkdirs(fs, dir), dir \o <<"texmgr.log">>)
                  /\ log_file' = Some(Abs(dir \o <<"texmgr.log">>))
                  /\ cpc' = "returned"
             ELSE /\ cpc' = "raised"
                  /\ UNCHANGED <<fs, log_file>>
    /\ UNCHANGED <<cwd, resolverVars, parserVars>>
    /\ UNCHANGED <<args, on_path, invocations, attempts, exit_code, pkgNo, current, project_root>>
    /\ UNCHANGED installer_path

LogNext ==
    \/ CallSetupLogging
    \/ FindProjectRootPass
    \/ MakeLogDir

LogSpec == LogInit /\ [][LogNext]_vars

-----------------------------------------------------------------------------
(* texmgr build and texmgr cleanup (builder/build.py, cli.py lines 152-163) *)
(*                                                                          *)
(* The filesystem queries succeed. A program that is started either         *)
(* returns or fails; latexmk and pandoc that return have written the        *)
(* document they were asked for.                                            *)

\* the entries of a project in Chain(P): main.tex, the directory format with
\* the files named in extras, and output of kind out
BuildProject(P, extras, out) ==
    LET dom == {Chain(P) \o <<MainTex>>, Chain(P) \o <<"format">>}
               \cup {Chain(P) \o <<"format", x>> : x \in extras}
               \cup (IF out # "none" THEN {Chain(P) \o <<"output">>} ELSE {})
    IN [q \in dom |->
            IF LastOf(q) = "format" THEN "dir"
            ELSE IF LastOf(q) = "output" THEN out
            ELSE "file"]

BuildTrees ==
    {Bare(D) : D \in 0..MaxChain}
    \cup UNION {{Overlay(Bare(D), BuildProject(P, extras, out)) :
                    P \in 0..D,
                    extras \in SUBSET {"template.docx", "style.css"},
                    out \in Kinds}
                : D \in 0..MaxChain}

Formats == {"pdf", "word", "html", "all"}

BuildInit ==
    /\ fs \in BuildTrees
    /\ cwd \in {q \in DOMAIN fs : fs[q] = "dir"}
    /\ ResolverIdle
    /\ content = <<>>
    /\ ParserIdle
    /\ on_path \in SUBSET {"latexmk", "pandoc"}
    /\ CommandIdle

\* the outcome of a function that raised before any program was started
Failed(f) == [ok |-> FALSE, fs |-> f, runs |-> <<>>]

\* ensure_dir(path) succeeds
EnsureDirOk(f, q) == MkdirOk(f, q)

\* build_pdf(watch); ran: latexmk, once started, returns
build_pdf(f, watch, ran) ==
    LET root       == detect_project_root(f, cwd)
        output_dir == root[1].parts \o <<"output", "pdf">>
        aux_dir    == root[1].parts \o <<"output", "logs">>
        made       == Mkdirs(Mkdirs(f, output_dir), aux_dir)
        cmd        == << "latexmk", "-pdf", "-interaction=nonstopmode",
                         [flag |-> "-output-directory=", path |-> Abs(output_dir)],
                         [flag |-> "-aux-directory=", path |-> Abs(aux_dir)],
                         "main.tex" >>
                      \o (IF watch THEN <<"-pvc", "-view=none">> ELSE <<>>)
    IN IF ~check_command_exists("latexmk") \/ root = None THEN Failed(f)
       ELSE IF ~EnsureDirOk(f, output_dir) \/ ~EnsureDirOk(f, aux_dir) THEN Failed(f)
       ELSE [ok   |-> ran,
             fs   |-> IF ran THEN WithFile(made, output_dir \o <<"main.pdf">>) ELSE made,
             runs |-> <<run_command(cmd, root, ran)>>]

\* build_word(); ran: pandoc, once started, returns. The last argument is
\* None when format/template.docx does not exist, and a command line that
\* holds None cannot be started.
build_word(f, ran) ==
    LET root       == detect_project_root(f, cwd)
        output_dir == root[1].parts \o <<"output", "word">>
        made       == Mkdirs(f, output_dir)
        template   == Kind(f, root[1].parts \o <<"format", "template.docx">>) # "none"
        cmd        == << "pandoc", "main.tex", "-o", Abs(output_dir \o <<"main.docx">>),
                         "--resource-path", ".",
                         "--reference-doc", "format/template.docx" >>
    IN IF ~check_command_exists("pandoc") \/ root = None THEN Failed(f)
       ELSE IF ~EnsureDirOk(f, output_dir) THEN Failed(f)
       ELSE IF ~template THEN [ok |-> FALSE, fs |-> made, runs |-> <<>>]
       ELSE [ok   |-> ran,
             fs   |-> IF ran THEN WithFile(made, output_dir \o <<"main.docx">>) ELSE made,
             runs |-> <<run_command(cmd, root, ran)>>]

\* build_html(): as build_word, with format/style.css
build_html(f, ran) ==
    LET root       == detect_project_root(f, cwd)
        output_dir == root[1].parts \o <<"output", "html">>
        made       == Mkdirs(f, output_dir)
        css        == Kind(f, root[1].parts \o <<"format", "style.css">>) # "none"
        cmd        == << "pandoc", "main.tex", "-o", Abs(output_dir \o <<"index.html">>),
                         "--standalone", "--mathjax", "--resource-path", ".",
                         "--css", "format/style.css" >>
    IN IF ~check_command_exists("pandoc") \/ root = None THEN Failed(f)
       ELSE IF ~EnsureDirOk(f, output_dir) THEN Failed(f)
       ELSE IF ~css THEN [ok |-> FALSE, fs |-> made, runs |-> <<>>]
       ELSE [ok   |-> ran,
             fs   |-> IF ran THEN WithFile(made, output_dir \o <<"index.html">>) ELSE made,
             runs |-> <<run_command(cmd, root, ran)>>]

\* lines 206-213 of cleanup: every regular file directly in output/pdf,
\* output/word and output/html is unlinked
Unlinked(f, root) ==
    LET n    == Len(root)
        gone == {q \in DOMAIN f :
                    /\ Len(q) = n + 3
                    /\ SubSeq(q, 1, n + 1) = root \o <<"output">>
                    /\ q[n + 2] \in {"pdf", "word", "html"}
                    /\ f[q] = "file"}
    IN [q \in DOMAIN f \ gone |-> f[q]]

\* cleanup(); ran: latexmk -c, once started, returns. The command is not
\* looked up first: latexmk that is not on PATH cannot be started.
cleanup(f, ran) ==
    LET root == detect_project_root(f, cwd)
    IN IF root = None \/ ~check_command_exists("latexmk") THEN Failed(f)
       ELSE [ok   |-> ran,
             fs   |-> IF ran THEN Unlinked(f, root[1].parts) ELSE f,
             runs |-> <<run_command(<<"latexmk", "-c">>, root, ran)>>]

\* the outcome o of the function called at this step takes effect
TakeOutcome(step, o) ==
    /\ fs' = o.fs
    /\ invocations' = invocations \o o.runs
    /\ attempts' = Noted(step, o.ok)

AfterIgnoringFailure(step, called, ok) ==
    IF step = "pdf" /\ called /\ args.watch THEN <<"build_returned", Some(0)>>
    ELSE IF step = "html" THEN <<"build_returned", Some(0)>>
    ELSE <<IF step = "pdf" THEN "word" ELSE "html", exit_code>>

\* build_document lines 163-179: where control goes after the step for one
\* format, and the value returned if it returns there. called: the format
\* was requested and its function called; ok: the function returned
After(step, called, ok) ==
    IF called /\ ~ok THEN <<"build_returned", Some(1)>>
    ELSE IF step = "pdf" /\ called /\ args.watch THEN <<"build_returned", Some(0)>>
    ELSE IF step = "html" THEN <<"build_returned", Some(0)>>
    ELSE <<IF step = "pdf" THEN "word" ELSE "html", exit_code>>

\* cli.py lines 152-154
CallBuildDocument ==
    /\ cpc = "idle"
    /\ \E fmt \in Formats, w \in BOOLEAN, k \in BOOLEAN :
          args' = [command |-> "build", format |-> fmt, watch |-> w, keep_logs |-> k]
    /\ cpc' = "pdf"
    /\ UNCHANGED <<fsVars, resolverVars, parserVars>>
    /\ UNCHANGED <<on_path, invocations, attempts, exit_code, pkgNo, current, project_root, log_file>>
    /\ UNCHANGED installer_path

\* build_document lines 164-167
BuildPdf ==
    /\ cpc = "pdf"
    /\ IF args.format \in {"pdf", "all"}
          THEN \E ran \in BOOLEAN :
                  LET o == build_pdf(fs, args.watch, ran)
                  IN /\ TakeOutcome("pdf", o)
                     /\ cpc' = After("pdf", TRUE, o.ok)[1]
                     /\ exit_code' = After("pdf", TRUE, o.ok)[2]
          ELSE /\ cpc' = After("pdf", FALSE, TRUE)[1]
               /\ exit_code' = After("pdf", FALSE, TRUE)[2]
               /\ UNCHANGED <<fs, invocations, attempts>>
    /\ UNCHANGED <<cwd, resolverVars, parserVars>>
    /\ UNCHANGED <<args, on_path, pkgNo, current, project_root, log_file>>
    /\ UNCHANGED installer_path

\* build_document lines 169-170
BuildWord ==
    /\ cpc = "word"
    /\ IF args.format \in {"word", "all"}
          THEN \E ran \in BOOLEAN :
                  LET o == build_word(fs, ran)
                  IN /\ TakeOutcome("word", o)
                     /\ cpc' = After("word", TRUE, o.ok)[1]
                     /\ exit_code' = After("word", TRUE, o.ok)[2]
          ELSE /\ cpc' = After("word", FALSE, TRUE)[1]
               /\ exit_code' = After("word", FALSE, TRUE)[2]
               /\ UNCHANGED <<fs, invocations, attempts>>
    /\ UNCHANGED <<cwd, resolverVars, parserVars>>
    /\ UNCHANGED <<args, on_path, pkgNo, current, project_root, log_file>>
    /\ UNCHANGED installer_path

\* build_document lines 172-175
BuildHtml ==
    /\ cpc = "html"
    /\ IF args.format \in {"html", "all"}
          THEN \E ran \in BOOLEAN :
                  LET o == build_html(fs, ran)
                  IN /\ TakeOutcome("html", o)
                     /\ cpc' = After("html", TRUE, o.ok)[1]
                     /\ exit_code' = After("html", TRUE, o.ok)[2]
          ELSE /\ cpc' = After("html", FALSE, TRUE)[1]
               /\ exit_code' = After("html", FALSE, TRUE)[2]
               /\ UNCHANGED <<fs, invocations, attempts>>
    /\ UNCHANGED <<cwd, resolverVars, parserVars>>
    /\ UNCHANGED <<args, on_path, pkgNo, current, project_root, log_file>>
    /\ UNCHANGED installer_path

\* cli.py line 156
CleansUp == exit_code = Some(0) /\ ~args.keep_logs /\ ~args.watch

\* cli.py lines 156-159: cleanup() after a build that returned 0; its value
\* is dropped
AutoCleanup ==
    /\ cpc = "build_returned"
    /\ CleansUp
    /\ \E ran \in BOOLEAN : TakeOutcome("cleanup", cleanup(fs, ran))
    /\ cpc' = "returned"
    /\ UNCHANGED <<cwd, resolverVars, parserVars>>
    /\ UNCHANGED <<args, on_path, exit_code, pkgNo, current, project_root, log_file>>
    /\ UNCHANGED installer_path

\* cli.py lines 156 and 159: no cleanup
BuildReturn ==
    /\ cpc = "build_returned"
    /\ ~CleansUp
    /\ cpc' = "returned"
    /\ UNCHANGED <<fsVars, resolverVars, parserVars>>
    /\ UNCHANGED <<args, on_path, invocations, attempts, exit_code, pkgNo, current,
                   project_root, log_file>>
    /\ UNCHANGED installer_path

\* cli.py lines 161-163: texmgr cleanup
CleanupCommand ==
    /\ cpc = "idle"
    /\ args' = [NoArgs EXCEPT !.command = "cleanup"]
    /\ \E ran \in BOOLEAN :
          LET o == cleanup(fs, ran)
          IN /\ TakeOutcome("cleanup", o)
             /\ exit_code' = Some(IF o.ok THEN 0 ELSE 1)
    /\ cpc' = "returned"
    /\ UNCHANGED <<cwd, resolverVars, parserVars>>
    /\ UNCHANGED <<on_path, pkgNo, current, project_root, log_file>>
    /\ UNCHANGED installer_path

BuildNext ==
    \/ CallBuildDocument
    \/ BuildPdf
    \/ BuildWord
    \/ BuildHtml
    \/ AutoCleanup
    \/ BuildReturn
    \/ CleanupCommand

BuildSpec == BuildInit /\ [][BuildNext]_vars

-----------------------------------------------------------------------------
(* texmgr install (install/installer.py)                                    *)
(*                                                                          *)
(* A program that is started either returns or fails; a program that is     *)
(* not found cannot be started. The installer and the package managers,     *)
(* when they return, may or may not have put their programs on PATH.        *)

\* install_dir of install_texlive
TexliveDir == <<"usr", "local", "texlive">>

\* the directory tempfile.mkdtemp() creates
TempDir == <<"tmp", "tmpdir">>

InstallScript == "install-tl-unx.tar.gz"

\* the directory the archive unpacks to
ExtractedDir == TempDir \o <<"install-tl-unx">>

TexLivePrograms == {"pdflatex", "tlmgr", "latexmk"}

\* required_commands of verify_installation
RequiredCommands == {"pdflatex", "tlmgr", "latexmk", "pandoc", "bibtex"}

\* core_packages of install_core_packages
CorePackages ==
    << "amsmath", "amsthm", "amssymb", "graphics", "graphicx", "subfig", "float",
       "caption", "subcaption", "booktabs", "longtable", "url", "cite", "bibtex",
       "tikz", "textgreek", "siunitx", "latexmk", "texliveonfly" >>

\* package_managers of install_pandoc
PackageManagers ==
    << <<"apt-get", "update", "&&", "apt-get", "install", "-y", "pandoc">>,
       <<"dnf", "install", "-y", "pandoc">>,
       <<"pacman", "-S", "--noconfirm", "pandoc">> >>

\* the filesystem without the entry q
Without(f, q) == [x \in DOMAIN f \ {q} |-> f[x]]

\* Path.unlink(missing_ok) raises on a directory (EISDIR, EPERM) and, unless
\* missing_ok, on an entry that does not exist
UnlinkRaises(f, q, missing_ok) ==
    \/ Kind(f, q) = "dir"
    \/ Kind(f, q) = "none" /\ ~missing_ok

InstallTrees ==
    {Mkdirs(Bare(0), <<"tmp">>), Mkdirs(Mkdirs(Bare(0), <<"tmp">>), TexliveDir)}

InstallInit ==
    /\ fs \in InstallTrees
    /\ cwd = <<>>
    /\ ResolverIdle
    /\ content = <<>>
    /\ ParserIdle
    /\ on_path \in SUBSET RequiredCommands
    /\ CommandIdle

\* the step raised: the except of lines 290-292 makes the return value 1
InstallFails(step) ==
    /\ attempts' = Noted(step, FALSE)
    /\ exit_code' = Some(1)
    /\ cpc' = "finally"

\* the step returned and install_texlive goes on with next
InstallPasses(step, next) ==
    /\ attempts' = Noted(step, TRUE)
    /\ cpc' = next
    /\ UNCHANGED exit_code

\* lines 265-270: TeX Live is already installed, or the write permission
\* for install_dir is checked next
CallInstallTexlive ==
    /\ cpc = "idle"
    /\ args' = [NoArgs EXCEPT !.command = "install"]
    /\ IF \A cmd \in TexLivePrograms : check_command_exists(cmd)
          THEN /\ exit_code' = Some(0)
               /\ cpc' = "finally"
          ELSE /\ cpc' = "check_write_permission"
               /\ UNCHANGED exit_code
    /\ UNCHANGED <<fsVars, resolverVars, parserVars>>
    /\ UNCHANGED <<on_path, invocations, attempts, pkgNo, current, project_root,
                   log_file, installer_path>>

\* lines 270-275: check_write_permission(install_dir) answers; a directory
\* it made to find out is removed again
CheckWritePermission ==
    /\ cpc = "check_write_permission"
    /\ \/ InstallPasses("check_write_permission", "download_texlive_installer")
       \/ InstallFails("check_write_permission")
    /\ UNCHANGED <<fsVars, resolverVars, parserVars>>
    /\ UNCHANGED <<args, on_path, invocations, pkgNo, current, project_root,
                   log_file, installer_path>>

\* line 276 and download_texlive_installer: mkdtemp makes the directory,
\* urlretrieve writes the archive into it or raises
DownloadTexliveInstaller ==
    /\ cpc = "download_texlive_installer"
    /\ \/ /\ fs' = WithFile(Mkdirs(fs, TempDir), TempDir \o <<InstallScript>>)
          /\ installer_path' = Some(Abs(TempDir \o <<InstallScript>>))
          /\ InstallPasses("download_texlive_installer", "extract_installer")
       \/ /\ fs' = Mkdirs(fs, TempDir)
          /\ UNCHANGED installer_path
          /\ InstallFails("download_texlive_installer")
    /\ UNCHANGED <<cwd, resolverVars, parserVars>>
    /\ UNCHANGED <<args, on_path, invocations, pkgNo, current, project_root, log_file>>

\* line 277 and extract_installer: tar unpacks the archive in its directory;
\* no directory install-tl-* there afterwards is an error
ExtractInstaller ==
    /\ cpc = "extract_installer"
    /\ LET extract_dir == Parent(installer_path[1])
           cmd == <<"tar", "xzf", installer_path[1]>>
       IN \/ /\ invocations' = Append(invocations, run_command(cmd, Some(extract_dir), FALSE))
             /\ InstallFails("extract_installer")
             /\ UNCHANGED fs
          \/ /\ invocations' = Append(invocations, run_command(cmd, Some(extract_dir), TRUE))
             /\ \/ /\ fs' = Mkdirs(fs, ExtractedDir)
                   /\ InstallPasses("extract_installer", "create_profile")
                \/ /\ UNCHANGED fs
                   /\ InstallFails("extract_installer")
    /\ UNCHANGED <<cwd, resolverVars, parserVars>>
    /\ UNCHANGED <<args, on_path, pkgNo, current, project_root, log_file, installer_path>>

\* line 279 and create_profile: texlive.profile is written into install_dir,
\* which must be a directory, or the write raises
CreateProfile ==
    /\ cpc = "create_profile"
    /\ \/ /\ Kind(fs, TexliveDir) = "dir"
          /\ fs' = WithFile(fs, TexliveDir \o <<"texlive.profile">>)
          /\ InstallPasses("create_profile", "run_installer")
       \/ /\ UNCHANGED fs
          /\ InstallFails("create_profile")
    /\ UNCHANGED <<cwd, resolverVars, parserVars>>
    /\ UNCHANGED <<args, on_path, invocations, pkgNo, current, project_root,
                   log_file, installer_path>>

\* line 280 and run_installer
RunInstaller ==
    /\ cpc = "run_installer"
    /\ LET cmd == <<"./install-tl", "-profile", Abs(TexliveDir \o <<"texlive.profile">>)>>
       IN \/ /\ invocations' = Append(invocations, run_command(cmd, Some(Abs(ExtractedDir)), TRUE))
             /\ \E S \in SUBSET {"pdflatex", "tlmgr", "bibtex"} : on_path' = on_path \cup S
             /\ InstallPasses("run_installer", "install_pandoc")
          \/ /\ invocations' = Append(invocations, run_command(cmd, Some(Abs(ExtractedDir)), FALSE))
             /\ UNCHANGED on_path
             /\ InstallFails("run_installer")
    /\ UNCHANGED <<fsVars, resolverVars, parserVars>>
    /\ UNCHANGED <<args, pkgNo, current, project_root, log_file, installer_path>>

\* the package managers install_pandoc has tried when it ends after n of
\* them, the last one returning or not
Tried(cmds, n, ok) ==
    [i \in 1..n |-> run_command(cmds[i], None, ok /\ i = n)]

\* lines 282-283 and install_pandoc, skipped when pandoc is found: brew on
\* darwin; on linux the package managers in turn until one returns, a
\* failure ending the loop when it is not an InstallError; an error on any
\* other platform
InstallPandoc ==
    /\ cpc = "install_pandoc"
    /\ IF check_command_exists("pandoc")
          THEN /\ cpc' = "install_core_packages"
               /\ UNCHANGED <<on_path, invocations, attempts, exit_code>>
          ELSE \E system \in {"darwin", "linux", "other"} :
                  \E ok \in BOOLEAN, n \in 1..Len(PackageManagers) :
                     /\ system = "other" => ~ok
                     /\ system # "linux" => n = 1
                     /\ invocations' = invocations \o
                           (IF system = "darwin"
                               THEN Tried(<< <<"brew", "install", "pandoc">> >>, 1, ok)
                            ELSE IF system = "linux" THEN Tried(PackageManagers, n, ok)
                            ELSE <<>>)
                     /\ IF ok
                           THEN /\ \E S \in SUBSET {"pandoc"} : on_path' = on_path \cup S
                                /\ InstallPasses("install_pandoc", "install_core_packages")
                           ELSE /\ UNCHANGED on_path
                                /\ InstallFails("install_pandoc")
    /\ UNCHANGED <<fsVars, resolverVars, parserVars>>
    /\ UNCHANGED <<args, pkgNo, current, project_root, log_file, installer_path>>

\* line 284 and install_core_packages: one tlmgr run for all core packages
InstallCorePackages ==
    /\ cpc = "install_core_packages"
    /\ LET cmd == <<"tlmgr", "install">> \o CorePackages
       IN \/ /\ check_command_exists("tlmgr")
             /\ invocations' = Append(invocations, run_command(cmd, None, TRUE))
             /\ \E S \in SUBSET {"latexmk"} : on_path' = on_path \cup S
             /\ InstallPasses("install_core_packages", "verify_installation")
          \/ /\ invocations' =
                   IF check_command_exists("tlmgr")
                      THEN Append(invocations, run_command(cmd, None, FALSE))
                      ELSE invocations
             /\ UNCHANGED on_path
             /\ InstallFails("install_core_packages")
    /\ UNCHANGED <<fsVars, resolverVars, parserVars>>
    /\ UNCHANGED <<args, pkgNo, current, project_root, log_file, installer_path>>

\* lines 285-288 and verify_installation: 0 when every required command is
\* found
VerifyInstallation ==
    /\ cpc = "verify_installation"
    /\ IF \A cmd \in RequiredCommands : check_command_exists(cmd)
          THEN /\ attempts' = Noted("verify_installation", TRUE)
               /\ exit_code' = Some(0)
               /\ cpc' = "finally"
          ELSE InstallFails("verify_installation")
    /\ UNCHANGED <<fsVars, resolverVars, parserVars>>
    /\ UNCHANGED <<args, on_path, invocations, pkgNo, current, project_root,
                   log_file, installer_path>>

\* lines 294-296, the finally clause: when installer_path was assigned, its
\* parent is unlinked; an exception raised here replaces the return value
InstallFinally ==
    /\ cpc = "finally"
    /\ IF installer_path = None
          THEN /\ cpc' = "returned"
               /\ UNCHANGED <<fs, exit_code>>
          ELSE LET dir == Parent(installer_path[1]).parts
               IN IF UnlinkRaises(fs, dir, TRUE)
                     THEN /\ cpc' = "raised"
                          /\ exit_code' = None
                          /\ UNCHANGED fs
                     ELSE /\ cpc' = "returned"
                          /\ fs' = Without(fs, dir)
                          /\ UNCHANGED exit_code
    /\ UNCHANGED <<cwd, resolverVars, parserVars>>
    /\ UNCHANGED <<args, on_path, invocations, attempts, pkgNo, current, project_root,
                   log_file, installer_path>>

InstallNext ==
    \/ CallInstallTexlive
    \/ CheckWritePermission
    \/ DownloadTexliveInstaller
    \/ ExtractInstaller
    \/ CreateProfile
    \/ RunInstaller
    \/ InstallPandoc
    \/ InstallCorePackages
    \/ VerifyInstallation
    \/ InstallFinally

InstallSpec == InstallInit /\ [][InstallNext]_vars

-----------------------------------------------------------------------------
(* texmgr init (init/initializer.py, create_project_structure, ensure_dir   *)
(* and safe_write of utils/fileops.py, PROJECT_DIRS and TEMPLATES of        *)
(* config.py)                                                               *)
(*                                                                          *)
(* Listing the directory, making a directory and writing a file may fail    *)
(* with an OS error. git init that returns has made the directory .git.     *)

\* PROJECT_DIRS
ProjectDirsNoOutput == << <<"format">>, <<"text">>, <<"fig">> >>

ProjectDirs ==
    << <<"format">>, <<"text">>, <<"fig">>,
       <<"output", "pdf">>, <<"output", "word">>, <<"output", "html">>,
       <<"output", "logs">> >>

\* the --type values the command line accepts, and one it does not
DocTypes == {"article", "beamer", "report"}

\* get_template_files(doc_type): the paths of the template files in the
\* order of the dictionary; None for a type that is not in TEMPLATES
get_template_files(doc_type) ==
    IF doc_type \in {"article", "beamer"}
       THEN Some(<< <<"main.tex">>,
                    <<"format", "packages.tex">>, <<"format", "preamble.tex">>,
                    <<"format", "references.tex">>, <<"format", "title.tex">>,
                    <<"text", "body.tex">>, <<"refs.bib">>, <<".gitignore">> >>)
       ELSE None

\* the entries of the directory q
Children(f, q) ==
    {x \in DOMAIN f : Len(x) = Len(q) + 1 /\ SubSeq(x, 1, Len(q)) = q}

IsHidden(x) == LastOf(x) \in {".git", ".gitignore"}

AnyVisibleEntry(f, q) == \E x \in Children(f, q) : ~IsHidden(x)

\* any(project_dir.iterdir())
AnyEntry(f, q) == Children(f, q) # {}

\* create_project_structure(root, dirs): ensure_dir for each directory in
\* turn, ended by the first that raises; fault: the call that hits an OS
\* error (0: none)
RECURSIVE create_project_structure(_, _, _, _)
create_project_structure(f, root, dirs, fault) ==
    IF dirs = <<>> THEN [ok |-> TRUE, fs |-> f]
    ELSE IF fault = 1 \/ ~MkdirOk(f, root \o Head(dirs)) THEN [ok |-> FALSE, fs |-> f]
    ELSE create_project_structure(Mkdirs(f, root \o Head(dirs)), root, Tail(dirs), fault - 1)

\* the loop of create_project_files: for each template ensure_dir of its
\* parent and safe_write, which refuses a path that exists; ended by the
\* first call that raises
RECURSIVE WriteTemplates(_, _, _, _)
WriteTemplates(f, root, files, fault) ==
    IF files = <<>> THEN [ok |-> TRUE, fs |-> f]
    ELSE LET full_path == root \o Head(files)
             parent    == SubSeq(full_path, 1, Len(full_path) - 1)
         IN IF fault = 1 \/ ~MkdirOk(f, parent) THEN [ok |-> FALSE, fs |-> f]
            ELSE IF Kind(f, full_path) # "none"
                    THEN [ok |-> FALSE, fs |-> Mkdirs(f, parent)]
            ELSE WriteTemplates(WithFile(Mkdirs(f, parent), full_path),
                                root, Tail(files), fault - 1)

\* create_project_files(project_dir, doc_type)
create_project_files(f, project_dir, doc_type, fault) ==
    LET templates == get_template_files(doc_type)
    IN IF templates = None THEN [ok |-> FALSE, fs |-> f]
       ELSE WriteTemplates(f, project_dir, templates[1], fault)

InitEntries == {MainTex, "format", ".gitignore"}

\* the chain of depth D with the entries r in its deepest directory
InitTree(D, r) ==
    LET dom == {Chain(D) \o <<n>> : n \in {x \in InitEntries : r[x] # "none"}}
    IN Overlay(Bare(D), [q \in dom |-> r[LastOf(q)]])

InitTrees == UNION {{InitTree(D, r) : r \in [InitEntries -> Kinds]} : D \in 0..MaxChain}

InitProjectInit ==
    /\ fs \in InitTrees
    /\ cwd \in {q \in DOMAIN fs : fs[q] = "dir" /\ (q = <<>> \/ LastOf(q) = "d")}
    /\ ResolverIdle
    /\ content = <<>>
    /\ ParserIdle
    /\ on_path \in SUBSET {"git"}
    /\ CommandIdle

\* init_project returns 1 from its except clause
InitFails ==
    /\ exit_code' = Some(1)
    /\ cpc' = "returned"

\* cli.py line 146 and init_project lines 88-97: the working directory must
\* have no entry; listing it may raise
CallInitProject ==
    /\ cpc = "idle"
    /\ \E g \in BOOLEAN, t \in DocTypes :
          args' = [command |-> "init", use_git |-> g, doc_type |-> t]
    /\ \E fault \in BOOLEAN :
          IF fault \/ AnyEntry(fs, cwd)
             THEN InitFails
             ELSE /\ cpc' = "create_project_structure"
                  /\ UNCHANGED exit_code
    /\ UNCHANGED <<fsVars, resolverVars, parserVars>>
    /\ UNCHANGED <<on_path, invocations, attempts, pkgNo, current, project_root,
                   log_file, installer_path>>

\* init_project line 100
CreateProjectStructure ==
    /\ cpc = "create_project_structure"
    /\ \E fault \in 0..Len(ProjectDirs) :
          LET o == create_project_structure(fs, cwd, ProjectDirs, fault)
          IN /\ fs' = o.fs
             /\ attempts' = Noted("create_project_structure", o.ok)
             /\ IF o.ok
                   THEN cpc' = "create_project_files" /\ UNCHANGED exit_code
                   ELSE InitFails
    /\ UNCHANGED <<cwd, resolverVars, parserVars>>
    /\ UNCHANGED <<args, on_path, invocations, pkgNo, current, project_root,
                   log_file, installer_path>>

\* init_project line 103
CreateProjectFiles ==
    /\ cpc = "create_project_files"
    /\ \E fault \in 0..Len(get_template_files("article")[1]) :
          LET o == create_project_files(fs, cwd, args.doc_type, fault)
          IN /\ fs' = o.fs
             /\ attempts' = Noted("create_project_files", o.ok)
             /\ IF o.ok
                   THEN cpc' = "init_git" /\ UNCHANGED exit_code
                   ELSE InitFails
    /\ UNCHANGED <<cwd, resolverVars, parserVars>>
    /\ UNCHANGED <<args, on_path, invocations, pkgNo, current, project_root,
                   log_file, installer_path>>

\* init_project lines 106-110 and init_git: git init in the project
\* directory when use_git, then 0
InitGit ==
    /\ cpc = "init_git"
    /\ IF ~args.use_git
          THEN /\ exit_code' = Some(0)
               /\ cpc' = "returned"
               /\ UNCHANGED <<fs, invocations, attempts>>
          ELSE \E ran \in BOOLEAN :
                  LET ok == ran /\ check_command_exists("git")
                  IN /\ invocations' =
                           IF check_command_exists("git")
                              THEN Append(invocations,
                                          run_command(<<"git", "init">>, Some(Abs(cwd)), ok))
                              ELSE invocations
                     /\ attempts' = Noted("init_git", ok)
                     /\ fs' = IF ok THEN Mkdirs(fs, cwd \o <<".git">>) ELSE fs
                     /\ exit_code' = Some(IF ok THEN 0 ELSE 1)
                     /\ cpc' = "returned"
    /\ UNCHANGED <<cwd, resolverVars, parserVars>>
    /\ UNCHANGED <<args, on_path, pkgNo, current, project_root, log_file, installer_path>>

InitProjectNext ==
    \/ CallInitProject
    \/ CreateProjectStructure
    \/ CreateProjectFiles
    \/ InitGit

InitProjectSpec == InitProjectInit /\ [][InitProjectNext]_vars

-----------------------------------------------------------------------------
(* Properties of the resolver *)

ResolverOps == {"find_file", "detect_project_root", "is_valid_project_dir"}

\* the steps k <= md at which ancestor_k(p)/fn is a regular file
MatchSteps(p, fn, md) ==
    {k \in 0..md : IsFile(fs, cwd, Join(Ancestor(p, k), fn))}

FindFileDone == pc = "done" /\ op = "find_file"

\* C1: for a start that is a directory and max_depth >= 0, find_file returns
\* ancestor_k(start)/filename for the smallest k <= max_depth at which that
\* path is a regular file, and None when there is no such k (also when the
\* file exists only more than max_depth steps above start). No filesystem
\* query of the call faults.
C1_FindFileResult ==
    (/\ FindFileDone
     /\ faultAt = 0
     /\ max_depth >= 0
     /\ IsDir(fs, cwd, start_path))
    => LET K == MatchSteps(start_path, filename, max_depth)
       IN IF K = {}
             THEN result = None
             ELSE result = Some(Join(Ancestor(start_path, Least(K)), filename))

\* the file is found one or more steps above start
C1_Witness ==
    /\ FindFileDone
    /\ faultAt = 0
    /\ result # None
    /\ Len(examined) >= 2
    /\ MatchSteps(start_path, filename, max_depth) # {}

\* C2: find_file never raises, whichever filesystem query faults.
C2_NeverRaises ==
    op = "find_file" => ~raised

\* C3: with a start that is not an existing directory (a nonexistent path or
\* a regular file) find_file returns None, does not raise and examines no
\* directory, whatever start's parent holds. The is_dir() query itself
\* answers without an OS error.
C3_NotADirectory ==
    (/\ FindFileDone
     /\ faultAt = 0
     /\ ~IsDir(fs, cwd, start_path))
    => /\ result = None
       /\ ~raised
       /\ examined = <<>>

\* start is a regular file whose parent holds the file searched for
C3_Witness ==
    /\ FindFileDone
    /\ faultAt = 0
    /\ IsFile(fs, cwd, start_path)
    /\ IsFile(fs, cwd, Join(Parent(start_path), filename))
    /\ result = None

Max0(n) == IF n < 0 THEN 0 ELSE n

C4_Bounded ==
    op \in {"find_file", "detect_project_root"} =>
        /\ Len(examined) <= Max0(max_depth + 1)
        /\ \A i \in DOMAIN examined : examined[i] = Ancestor(start_path, i - 1)
        /\ pc = "loop" => iter = Len(examined) \/ iter + 1 = Len(examined)
        /\ pc = "loop" => iter <= Max0(max_depth + 1)
        /\ pc \in {"check_start", "loop", "detect_return", "done"}
        /\ pc # "done" => ENABLED Next

C4_StopReason ==
    (/\ pc \in {"done", "detect_return"}
     /\ op \in {"find_file", "detect_project_root"}
     /\ faultAt = 0
     /\ examined # <<>>)
    => LET last == examined[Len(examined)]
       IN \/ found = Some(Join(last, filename))
          \/ found = None /\ last = Parent(last)
          \/ found = None /\ Len(examined) = max_depth + 1

C4_DepthZero ==
    (/\ FindFileDone
     /\ max_depth = 0
     /\ ~raised
     /\ faultAt # 1
     /\ IsDir(fs, cwd, start_path))
    => examined = <<start_path>>

\* C4: find_file terminates and examines at most max_depth + 1 directories,
\* start and its ancestors in order: every loop pass advances the pass
\* counter, which never exceeds max_depth + 1, and every unfinished call can
\* take a step; without a fault the walk stops at the first match, at a
\* directory that is its own parent (examined before stopping), or after
\* max_depth + 1 directories; with max_depth = 0 only start is examined.
C4_Terminates ==
    /\ [](C4_Bounded /\ C4_StopReason /\ C4_DepthZero)
    /\ [][(pc = "loop" /\ pc' = "loop") =>
              (iter' = iter + 1 /\ Len(examined') = Len(examined) + 1)]_vars

\* the walk examined the root and stopped there with passes to spare
C4_Witness ==
    /\ FindFileDone
    /\ faultAt = 0
    /\ found = None
    /\ examined # <<>>
    /\ examined[Len(examined)].parts = <<>>
    /\ examined[Len(examined)].abs
    /\ Len(examined) >= 2
    /\ Len(examined) < max_depth + 1

DetectDone == pc = "done" /\ op = "detect_project_root" /\ ~raised

\* the directories from p up to the filesystem root
RealAncestors(p) ==
    LET q == Resolve(cwd, p)
    IN {Abs(SubSeq(q, 1, n)) : n \in 0..Len(q)}

\* C5: a directory R returned by detect_project_root is the direct parent
\* of the marker find_file found, and R/main.tex is a regular file directly
\* in R; when no directory from start up to the filesystem root holds
\* main.tex as a regular file, None is returned.
C5_ProjectRoot ==
    DetectDone =>
        /\ result # None =>
              /\ found # None
              /\ result[1] = Parent(found[1])
              /\ found[1].parts = result[1].parts \o <<MainTex>>
              /\ Kind(fs, Resolve(cwd, result[1]) \o <<MainTex>>) = "file"
        /\ (\A d \in RealAncestors(start_path) : ~IsFile(fs, cwd, Join(d, <<MainTex>>)))
              => result = None

\* the root returned lies above the start directory
C5_Witness ==
    /\ DetectDone
    /\ result # None
    /\ result[1] # start_path
    /\ Len(examined) >= 2

\* C6: is_valid_project_dir(path) is True exactly when path/main.tex is a
\* regular file and path/format, path/output and path/text are directories.
C6_ValidProjectDir ==
    (pc = "done" /\ op = "is_valid_project_dir") =>
        LET d == Resolve(cwd, start_path)
        IN result = Some(/\ Kind(fs, d \o <<"main.tex">>) = "file"
                         /\ Kind(fs, d \o <<"format">>) = "dir"
                         /\ Kind(fs, d \o <<"output">>) = "dir"
                         /\ Kind(fs, d \o <<"text">>) = "dir")

\* a valid project directory is recognised
C6_Witness ==
    /\ pc = "done"
    /\ op = "is_valid_project_dir"
    /\ result = Some(TRUE)

\* C7: no step of find_file, detect_project_root or is_valid_project_dir
\* changes the filesystem (the entries and their kinds) or the working
\* directory.
C7_ReadOnly ==
    [][(op \in ResolverOps \/ op' \in ResolverOps) => (fs' = fs /\ cwd' = cwd)]_vars

\* a search that walked upwards and found its file has completed
C7_Witness ==
    /\ pc = "done"
    /\ op \in {"find_file", "detect_project_root"}
    /\ found # None
    /\ Len(examined) >= 2
    /\ faultAt # 0

-----------------------------------------------------------------------------
(* Properties of the parser *)

ParseDone == ppc = "done"

\* a physical line that is a candidate and matches the declaration pattern
Declares(raw) ==
    LET s == Strip(raw) IN StartsWith(s, Keyword) /\ Match(s).ok

\* a candidate line that does not match the declaration pattern
Malformed(raw) ==
    LET s == Strip(raw) IN StartsWith(s, Keyword) /\ ~Match(s).ok

\* Source positions <<line number, column>> of the name tokens of the text:
\* in the name clause of a declaring line a token starts right after the
\* opening brace and right after every comma, and runs to the next comma or
\* to the end of the clause.
ClauseFirst(s) == Match(s).open + 1
ClauseLast(s)  == Match(s).open + Len(Match(s).group2)

TokenText(s, col) ==
    LET stops == {e \in col..ClauseLast(s) : s[e] = ","}
        e     == IF stops = {} THEN ClauseLast(s) + 1 ELSE Least(stops)
    IN Strip(SubSeq(s, col, e - 1))

TokenStarts(s) ==
    {col \in ClauseFirst(s)..(ClauseLast(s) + 1) :
        /\ col = ClauseFirst(s) \/ s[col - 1] = ","
        /\ TokenText(s, col) # <<>>}

NamePositions(ls) ==
    UNION {{<<n, col>> : col \in TokenStarts(Strip(ls[n]))}
           : n \in {k \in DOMAIN ls : Declares(ls[k])}}

Before(x, y) == x[1] < y[1] \/ (x[1] = y[1] /\ x[2] < y[2])

RECURSIVE InSourceOrder(_)
InSourceOrder(S) ==
    IF S = {} THEN <<>>
    ELSE LET first == CHOOSE x \in S : \A y \in S \ {x} : Before(x, y)
         IN <<first>> \o InSourceOrder(S \ {first})

NamesOf(pairs) == [i \in DOMAIN pairs |-> pairs[i][1]]

\* C8: the names parse_packages returns are the name tokens of the content
\* read in source order, an earlier line before a later one and, within a
\* line, left to right, one entry per declared token: nothing is sorted or
\* deduplicated.
C8_SourceOrder ==
    ParseDone =>
        LET order == InSourceOrder(NamePositions(lines))
        IN NamesOf(packages) =
              [i \in DOMAIN order |-> TokenText(Strip(lines[order[i][1]]), order[i][2])]

\* a name declared on two lines is returned twice, and b precedes a where
\* the source has them in that order
C8_Witness ==
    /\ ParseDone
    /\ \E i, j \in DOMAIN packages :
          /\ i + 1 < j
          /\ packages[i][1] = packages[j][1]
          /\ packages[i][1] = <<"b">>
          /\ packages[i + 1][1] = <<"a">>

RemoveAt(seq, n) == SubSeq(seq, 1, n - 1) \o SubSeq(seq, n + 1, Len(seq))

\* C9: a malformed candidate line adds no entry and leaves the parsing of
\* the other lines alone: the result for A + [malformed] + B is the result
\* of parse_packages for A + B, and the loop runs through every line.
C9_MalformedSkipped ==
    ParseDone =>
        /\ lineNo = Len(lines) + 1
        /\ \A n \in DOMAIN lines :
              Malformed(lines[n]) =>
                  packages = parse_packages(JoinLines(RemoveAt(lines, n)))

\* a malformed line between two lines that declare packages
C9_Witness ==
    /\ ParseDone
    /\ Len(lines) = 3
    /\ Malformed(lines[2])
    /\ LineEntries(lines[1]) # <<>>
    /\ LineEntries(lines[3]) # <<>>
    /\ Len(packages) = Len(LineEntries(lines[1])) + Len(LineEntries(lines[3]))

\* C10: all pairs parse_package_line emits for one line carry the same
\* options value, the identical string or None throughout.
C10_SharedOptions ==
    \A n \in 1..(lineNo - 1) :
        LET pairs == parse_package_line(Strip(lines[n]))
        IN \A i, j \in DOMAIN pairs : pairs[i][2] = pairs[j][2]

\* a line with options and several names has been parsed
C10_Witness ==
    /\ ParseDone
    /\ \E n \in DOMAIN lines :
          LET pairs == parse_package_line(Strip(lines[n]))
          IN /\ Len(pairs) >= 3
             /\ pairs[1][2] = Some(<<"o">>)
             /\ pairs[3][2] = Some(<<"o">>)
             /\ \E k \in DOMAIN packages : packages[k] = pairs[3]

\* lines of the contents drawn that the properties below name
SpacedNames  == Usepackage(<<"[", "o", "]", "{", "a", ",", " ", "b", ",", ",", " ", "c", "}">>)
EmptyClause  == Usepackage(<<"{", "}">>)
OneName      == Usepackage(<<"{", "a", "}">>)
EmptyOptions == Usepackage(<<"[", "]", "{", "b", "}">>)
Commented    ==
    <<" ">> \o Usepackage(<<"[", " ", "o", ",", "p", "]", "{", "c", "}", " ", "%", "x">>)
CommentedOut == <<"%", " ">> \o Usepackage(<<"{", "a", "}">>)

NameTrimmed(name) ==
    /\ name # <<>>
    /\ name[1] \notin Whitespace
    /\ name[Len(name)] \notin Whitespace

\* C11: no pair of parse_package_line or of parse_packages has an empty name
\* or a name with whitespace at either end, and the content
\* \usepackage[o]{a, b,, c} gives exactly the pairs (a, o), (b, o), (c, o).
C11_NamesTrimmed ==
    /\ \A k \in DOMAIN packages : NameTrimmed(packages[k][1])
    /\ ParseDone =>
          \A n \in DOMAIN lines :
              LET pairs == parse_package_line(lines[n])
              IN \A i \in DOMAIN pairs : NameTrimmed(pairs[i][1])
    /\ (ParseDone /\ lines = <<SpacedNames>>) =>
          packages = << <<(<<"a">>), Some(<<"o">>)>>,
                        <<(<<"b">>), Some(<<"o">>)>>,
                        <<(<<"c">>), Some(<<"o">>)>> >>

\* the line with an empty slot between two commas has been parsed
C11_Witness ==
    /\ ParseDone
    /\ lines = <<SpacedNames>>
    /\ Len(packages) = 3

\* C12 as stated: the line \usepackage{} matches the declaration pattern and
\* gives no pair.
C12_EmptyClauseMatches ==
    \A n \in 1..(lineNo - 1) :
        Strip(lines[n]) = EmptyClause =>
            /\ Match(Strip(lines[n])).ok
            /\ parse_package_line(lines[n]) = <<>>

\* C12: the candidate line \usepackage{} does not match the declaration
\* pattern, whose name clause takes at least one character; it gives no pair
\* and the lines after it are still parsed: \usepackage{} followed by
\* \usepackage{a} gives exactly (a, None).
C12_EmptyClauseNoMatch ==
    ParseDone =>
        /\ \A n \in DOMAIN lines :
              Strip(lines[n]) = EmptyClause =>
                  /\ StartsWith(Strip(lines[n]), Keyword)
                  /\ ~Match(Strip(lines[n])).ok
                  /\ parse_package_line(lines[n]) = <<>>
                  /\ packages = parse_packages(JoinLines(SubSeq(lines, 1, n - 1)))
                                  \o parse_packages(JoinLines(SubSeq(lines, n + 1, Len(lines))))
        /\ lineNo = Len(lines) + 1
        /\ lines = <<EmptyClause, OneName>> => packages = << <<(<<"a">>), None>> >>

\* \usepackage{} followed by \usepackage{a} has been parsed
C12_Witness ==
    /\ ParseDone
    /\ lines = <<EmptyClause, OneName>>
    /\ packages = << <<(<<"a">>), None>> >>

\* C13: the pattern is matched as a prefix: for a line L that matches and a
\* trailing text T, parse_package_line(L + T) = parse_package_line(L); the
\* line " \usepackage[ o,p]{c} %x" gives exactly (c, " o,p").
\* (content is L + T, lines[1] is L.)
C13_PrefixMatch ==
    ppc = "line_done" =>
        /\ Declares(lines[1]) => packages = parse_package_line(lines[1])
        /\ content = Commented =>
              packages = << <<(<<"c">>), Some(<<" ", "o", ",", "p">>)>> >>

\* a declaration with two names and a comment appended has been parsed
C13_Witness ==
    /\ ppc = "line_done"
    /\ lines = << Usepackage(<<"[", "o", "]", "{", "a", ",", "b", "}">>) >>
    /\ content = lines[1] \o <<" ", "%", "x">>
    /\ packages = << <<(<<"a">>), Some(<<"o">>)>>, <<(<<"b">>), Some(<<"o">>)>> >>

IsCandidate(raw) == StartsWith(Strip(raw), Keyword)

\* C14: a physical line adds entries only if, trimmed, it starts with the
\* keyword: the result for a content is the result for its candidate lines
\* alone with their indentation removed, so a line that has the keyword
\* further in adds nothing and an indented candidate is parsed like an
\* unindented one.
C14_CandidateLines ==
    ParseDone =>
        LET cands == SelectSeq(lines, IsCandidate)
        IN /\ packages = parse_packages(JoinLines([i \in DOMAIN cands |-> LStrip(cands[i])]))
           /\ \A n \in DOMAIN lines :
                 ~IsCandidate(lines[n]) =>
                     packages = parse_packages(JoinLines(RemoveAt(lines, n)))

\* a line with the keyword after a comment sign, then an indented declaration
C14_Witness ==
    /\ ParseDone
    /\ lines = <<CommentedOut, Commented>>
    /\ Len(packages) = 1
    /\ packages[1][1] = <<"c">>

\* C15: the options of every pair are the text between the "[" after the
\* keyword and the first "]", untrimmed; they are None exactly when the line
\* has no such clause, and the clause [] gives the empty string, not None.
C15_OptionsVerbatim ==
    ParseDone =>
        /\ \A n \in DOMAIN lines :
              Declares(lines[n]) =>
                  LET s        == Strip(lines[n])
                      p        == Len(Keyword) + 1
                      pairs    == parse_package_line(lines[n])
                      expected == IF s[p] = "["
                                     THEN Some(SubSeq(s, p + 1, IndexFrom(s, "]", p + 1) - 1))
                                     ELSE None
                  IN \A i \in DOMAIN pairs :
                        /\ pairs[i][2] = expected
                        /\ \E k \in DOMAIN packages : packages[k] = pairs[i]
        /\ lines = <<EmptyOptions, Commented, OneName>> =>
              packages = << <<(<<"b">>), Some(<<>>)>>,
                            <<(<<"c">>), Some(<<" ", "o", ",", "p">>)>>,
                            <<(<<"a">>), None>> >>

\* an empty options clause, options with a blank in them and no options
C15_Witness ==
    /\ ParseDone
    /\ lines = <<EmptyOptions, Commented, OneName>>
    /\ packages[1][2] = Some(<<>>)
    /\ packages[1][2] # None
    /\ packages[3][2] = None

RECURSIVE Concat(_)
Concat(ss) == IF ss = <<>> THEN <<>> ELSE Head(ss) \o Concat(Tail(ss))

\* C16: the result of parse_packages is the concatenation, in order, of
\* parse_package_line over the trimmed candidate lines; the result for two
\* contents joined by a line break is the concatenation of their results;
\* and the loop gives what the function of the content gives.
C16_Concatenation ==
    ParseDone =>
        LET trimmed == [i \in DOMAIN lines |-> Strip(lines[i])]
            cands   == SelectSeq(trimmed, IsCandidate)
        IN /\ packages = Concat([i \in DOMAIN cands |-> parse_package_line(cands[i])])
           /\ packages = parse_packages(content)
           /\ \A i \in DOMAIN content :
                 content[i] = "\n" =>
                     packages = parse_packages(SubSeq(content, 1, i - 1))
                                  \o parse_packages(SubSeq(content, i + 1, Len(content)))

\* a content of two parts that both declare packages, one name in both
C16_Witness ==
    /\ ParseDone
    /\ \E i \in DOMAIN content :
          /\ content[i] = "\n"
          /\ LET one == parse_packages(SubSeq(content, 1, i - 1))
                 two == parse_packages(SubSeq(content, i + 1, Len(content)))
             IN /\ Len(one) >= 2
                /\ Len(two) >= 1
                /\ \E k \in DOMAIN one : one[k] = two[1]
                /\ packages = one \o two

-----------------------------------------------------------------------------
(* Properties of the commands *)

\* In Spec, the functions find_file and detect_project_root above give the
\* value the stepwise calls return when no query faults.
ResolverFunctionsAgree ==
    /\ (pc = "done" /\ op = "find_file" /\ faultAt = 0) =>
          result = find_file(fs, cwd, start_path, filename, max_depth)
    /\ (pc = "done" /\ op = "detect_project_root" /\ faultAt = 0
                    /\ start_path = Abs(cwd)) =>
          result = detect_project_root(fs, cwd)

Returned(code) == cpc = "returned" /\ exit_code = Some(code)

Argvs == [i \in DOMAIN invocations |-> invocations[i].argv]

TlmgrInstall(pairs) == [i \in DOMAIN pairs |-> <<"tlmgr", "install", pairs[i][1]>>]

\* C17 as stated: when pkg install has returned 0, the programs run are
\* [tlmgr, install, name], once for each entry of the parsed sequence and in
\* its order.
C17_OncePerEntry ==
    (args.command = "pkg install" /\ Returned(0)) =>
        Argvs = TlmgrInstall(parse_packages(content))

\* C17: when tlmgr is found on PATH, pkg install runs exactly
\* [tlmgr, install, name] once for each entry of the parsed sequence, in its
\* order, a name declared twice twice and the options in no argument; when
\* tlmgr is not found, no program is run for any entry and the loop still
\* goes through them. Nothing is run when packages.tex is not read.
C17_OncePerEntryWhenFound ==
    args.command = "pkg install" =>
        LET done == IF cpc = "install" THEN SubSeq(packages, 1, pkgNo - 1)
                    ELSE IF Returned(0) THEN packages
                    ELSE <<>>
        IN /\ cpc \in {"install", "returned"} /\ exit_code # Some(1) =>
                 packages = parse_packages(content)
           /\ Argvs = IF check_command_exists("tlmgr") THEN TlmgrInstall(done) ELSE <<>>
           /\ Returned(0) => pkgNo = Len(packages) + 1

\* with tlmgr on PATH a sequence that has a name twice and a pair with
\* options has been installed, one of the runs failing
C17_Witness ==
    /\ args.command = "pkg install"
    /\ Returned(0)
    /\ check_command_exists("tlmgr")
    /\ Len(invocations) = 3
    /\ packages[1][2] # None
    /\ packages[1][1] = packages[3][1]
    /\ invocations[1].argv = invocations[3].argv
    /\ ~invocations[2].ok

\* C18 as stated: every external program runs with the project root that
\* detect_project_root gives for the working directory as its working
\* directory.
C18_RunInProjectRoot ==
    \A i \in DOMAIN invocations :
        LET R == detect_project_root(fs, cwd)
        IN R # None => invocations[i].cwd = R[1]

\* C19 as stated: setup_logging writes texmgr.log under R/output/logs when
\* detect_project_root gives R for the working directory, and under
\* ~/.texmgr/logs when it gives None.
C19_LogFollowsDetection ==
    (args.command = "setup_logging" /\ cpc = "returned") =>
        LET R == detect_project_root(fs, cwd)
        IN log_file = Some(Join(log_dir(R), <<"texmgr.log">>))

\* the formats a build argument asks for, in the order build_document takes
Requested(fmt) == IF fmt = "all" THEN <<"pdf", "word", "html">> ELSE <<fmt>>

IsBuildStep(a) == a.step \in {"pdf", "word", "html"}

\* the build functions called so far
BuildAttempts == SelectSeq(attempts, IsBuildStep)

InBuildDocument == cpc \in {"pdf", "word", "html"}

\* C20: build_document calls the build functions of the requested formats in
\* the order pdf, word, html and no other; each call but the last returned,
\* and after a call that failed nothing more is called and 1 is returned;
\* with watch, nothing is called after build_pdf and 0 is returned when it
\* returned; 0 is returned without watch only after every requested format
\* was built.
C20_BuildOrder ==
    args.command = "build" =>
        LET req  == Requested(args.format)
            done == BuildAttempts
            n    == Len(done)
        IN /\ n <= Len(req)
           /\ \A i \in 1..n : done[i].step = req[i]
           /\ \A i \in 1..(n - 1) : done[i].ok
           /\ (n > 0 /\ ~done[n].ok) => (~InBuildDocument /\ exit_code = Some(1))
           /\ (args.watch /\ n > 0 /\ done[1].step = "pdf") =>
                 /\ n = 1
                 /\ ~InBuildDocument
                 /\ done[1].ok => exit_code = Some(0)
           /\ InBuildDocument => exit_code = None
           /\ ~InBuildDocument => exit_code \in {Some(0), Some(1)}
           /\ (exit_code = Some(0) /\ ~(args.watch /\ req[1] = "pdf")) =>
                 (n = Len(req) /\ done[n].ok)
           /\ exit_code = Some(1) => (n > 0 /\ ~done[n].ok)

\* all three formats were asked for, pdf and word were built and html failed
C20_Witness ==
    /\ args.command = "build"
    /\ args.format = "all"
    /\ ~args.watch
    /\ cpc = "returned"
    /\ exit_code = Some(1)
    /\ Len(BuildAttempts) = 3
    /\ BuildAttempts[2].ok
    /\ ~BuildAttempts[3].ok
    /\ Len(invocations) = 3

\* where the build function of a format writes its document, below the
\* project root
DocumentOf(fmt) ==
    IF fmt = "pdf" THEN <<"output", "pdf", "main.pdf">>
    ELSE IF fmt = "word" THEN <<"output", "word", "main.docx">>
    ELSE <<"output", "html", "index.html">>

\* the build command has returned 0 and was to clean up after itself
BuiltAndCleaned ==
    /\ args.command = "build"
    /\ Returned(0)
    /\ ~args.keep_logs
    /\ ~args.watch

\* C21 as stated: when the build command has returned 0 without --keep-logs
\* and without --watch, the document of every requested format exists as a
\* regular file below the project root.
C21_BuiltDocumentKept ==
    BuiltAndCleaned =>
        LET R   == detect_project_root(fs, cwd)
            req == Requested(args.format)
        IN /\ R # None
           /\ \A i \in DOMAIN req :
                 Kind(fs, R[1].parts \o DocumentOf(req[i])) = "file"

\* some step of the installation failed
SomeStepFailed == \E i \in DOMAIN attempts : ~attempts[i].ok

\* C22 as stated: install_texlive never ends by raising; when it has ended
\* it has returned 0 or 1, 1 when a step failed and 0 otherwise, also on the
\* paths on which the installer archive was downloaded.
C22_ReturnsZeroOrOne ==
    args.command = "install" =>
        /\ cpc # "raised"
        /\ cpc = "returned" =>
              exit_code = Some(IF SomeStepFailed THEN 1 ELSE 0)

\* C23: init_project called in a working directory that has an entry, of
\* any kind and hidden or not, returns 1 at once: no directory or file is
\* made, no entry changes, no program is run.
C23_NonEmptyRefused ==
    [][(cpc = "idle" /\ args'.command = "init" /\ Children(fs, cwd) # {}) =>
          /\ cpc' = "returned"
          /\ exit_code' = Some(1)
          /\ fs' = fs
          /\ cwd' = cwd
          /\ invocations' = invocations
          /\ attempts' = attempts]_vars

\* init_project has returned 1 in a directory whose only entry is the hidden
\* file .gitignore
C23_Witness ==
    /\ args.command = "init"
    /\ Returned(1)
    /\ attempts = <<>>
    /\ Children(fs, cwd) = {cwd \o <<".gitignore">>}
    /\ fs[cwd \o <<".gitignore">>] = "file"

\* the directories below the directory q
DirsBelow(f, q) ==
    {x \in DOMAIN f : Len(x) > Len(q) /\ SubSeq(x, 1, Len(q)) = q /\ f[x] = "dir"}

\* C24: when init_project has returned 0, for the types article and beamer
\* and with or without git, the working directory D is a valid project
\* directory, and detect_project_root started at D or at any directory made
\* below D returns D.
C24_InitialisedProject ==
    (args.command = "init" /\ Returned(0)) =>
        /\ args.doc_type \in {"article", "beamer"}
        /\ is_valid_project_dir(fs, cwd, Abs(cwd))
        /\ \A i \in DOMAIN ProjectDirs : Kind(fs, cwd \o ProjectDirs[i]) = "dir"
        /\ \A S \in {cwd} \cup DirsBelow(fs, cwd) :
              detect_project_root(fs, S) = Some(Abs(cwd))

\* a beamer project with a git repository was initialised two directories
\* below the filesystem root
C24_Witness ==
    /\ args.command = "init"
    /\ Returned(0)
    /\ args.doc_type = "beamer"
    /\ args.use_git
    /\ Len(cwd) = 2
    /\ Kind(fs, cwd \o <<".git">>) = "dir"
    /\ Kind(fs, cwd \o <<"output", "logs">>) = "dir"
    /\ Cardinality(DirsBelow(fs, cwd)) = 9

IsInstallAttempt(a) == a.step = "install_package"

\* the calls of install_package made so far
InstallAttempts == SelectSeq(attempts, IsInstallAttempt)

\* read_packages_file raised
ReadFailed == attempts # <<>> /\ attempts[1].step = "read_packages_file" /\ ~attempts[1].ok

\* C25: in pkg install a call of install_package that fails does not end
\* the loop: while the loop runs one call was made for every entry before
\* the current one, whatever their outcomes, and 0 is returned after a call
\* for every entry of the parsed sequence, also when all of them failed; 1
\* is returned exactly when packages.tex was not found or not read, and then
\* no installation was attempted.
C25_FailuresDoNotStop ==
    args.command = "pkg install" =>
        /\ cpc = "install" => Len(InstallAttempts) = pkgNo - 1
        /\ Returned(0) =>
              /\ ~ReadFailed
              /\ packages = parse_packages(content)
              /\ Len(InstallAttempts) = Len(packages)
        /\ Returned(1) <=> (cpc = "returned" /\ ReadFailed)
        /\ ReadFailed => (Len(attempts) = 1 /\ invocations = <<>>)
        /\ cpc = "returned" => exit_code \in {Some(0), Some(1)}

\* with tlmgr on PATH every one of three installations failed and 0 was
\* returned
C25_Witness ==
    /\ args.command = "pkg install"
    /\ Returned(0)
    /\ Len(packages) = 3
    /\ Len(invocations) = 3
    /\ \A i \in DOMAIN invocations : ~invocations[i].ok
    /\ \A i \in DOMAIN InstallAttempts : ~InstallAttempts[i].ok

====
